---- MODULE Spec2Model ----
(***************************************************************************)
(* Model of the cover-letter builder front end (frontend/src/App.jsx):     *)
(* the React state of App, the asynchronous handleSubmit / renderPdfTo-    *)
(* Images continuations, the pdfUrl effect cleanup and the browser's       *)
(* object-URL registry (URL.createObjectURL / URL.revokeObjectURL).        *)
(***************************************************************************)
EXTENDS Integers, Sequences, FiniteSets, TLC

\* ---------------------------------------------------------------- bounds
MaxSubmits == 2      \* accepted submit actions per session
MaxPages == 2        \* pages of a returned document

\* ------------------------------------------------------------- constants
Null == "null"       \* JavaScript null: no file selected (useState(null))
NullUrl == 0         \* JavaScript null in pdfUrl (useState(null))

\* "cover_letter.pdf", the initial and fallback value of pdfName
DefaultName ==
  <<"c","o","v","e","r","_","l","e","t","t","e","r",".","p","d","f">>

RequestFailed == "Request failed"
SomethingWentWrong == "Something went wrong"
PreviewFailed == "Preview render failed (PDF -> images)."
\* message of the TypeError raised by reading a property of null
NullDetailTypeError == "Cannot read properties of null (reading 'detail')"

\* ------------------------------------------------------ user input domain
Files == {"resume.pdf"}
Descriptions == {"", "Backend engineer role"}
Templates == {"classic", "minimal"}

VARIABLES
  file, jobDescription, template,   \* form fields (useState)
  loading, error,                   \* request status (useState)
  pdfUrl, pdfName,                  \* download link (useState)
  pageImages, renderingPreview,     \* image preview (useState)
  mounted,                          \* the component has not been torn down
  urls,                             \* object URLs created so far
  tasks,                            \* handleSubmit invocations, by start order
  saved                             \* the last save of the output on display

uiVars == <<file, jobDescription, template, loading, error, pdfUrl, pdfName,
            pageImages, renderingPreview>>
vars == <<file, jobDescription, template, loading, error, pdfUrl, pdfName,
          pageImages, renderingPreview, mounted, urls, tasks, saved>>

\* ------------------------------------------------- Content-Disposition
Quote == "\""
FilenameKey == <<"f","i","l","e","n","a","m","e","=">>

UpperChars == <<"A","B","C","D","E","F","G","H","I","J","K","L","M",
                "N","O","P","Q","R","S","T","U","V","W","X","Y","Z">>
LowerChars == <<"a","b","c","d","e","f","g","h","i","j","k","l","m",
                "n","o","p","q","r","s","t","u","v","w","x","y","z">>

\* the /i flag: letters compare by their lower-case form
Lower(c) ==
  IF \E k \in 1..26 : UpperChars[k] = c
    THEN LowerChars[CHOOSE k \in 1..26 : UpperChars[k] = c]
    ELSE c

\* KeyAt without the /i flag
KeyAtCaseSensitive(s, i) ==
  /\ i + Len(FilenameKey) - 1 <= Len(s)
  /\ \A j \in 1..Len(FilenameKey) : s[i + j - 1] = FilenameKey[j]

\* "filename=" matches s at position i, ignoring case
KeyAt(s, i) ==
  /\ i + Len(FilenameKey) - 1 <= Len(s)
  /\ \A j \in 1..Len(FilenameKey) : Lower(s[i + j - 1]) = FilenameKey[j]

\* start of the capture group for a key at i: "? is greedy
CaptureStart(s, i) ==
  LET p == i + Len(FilenameKey)
  IN IF p <= Len(s) /\ s[p] = Quote THEN p + 1 ELSE p

\* end of the capture group [^"]+ starting at q (q - 1 when it is empty)
CaptureEnd(s, q) ==
  IF \E e \in q..Len(s) : s[e] = Quote
    THEN (CHOOSE e \in q..Len(s) :
            s[e] = Quote /\ \A k \in q..(e - 1) : s[k] # Quote) - 1
    ELSE Len(s)

\* /filename="?([^"]+)"?/i succeeds at position i
MatchAt(s, i) ==
  /\ KeyAt(s, i)
  /\ CaptureEnd(s, CaptureStart(s, i)) >= CaptureStart(s, i)

\* disposition.match(/filename="?([^"]+)"?/i)?.[1] : the first group of the
\* leftmost match, or <<>> (undefined) when there is none
MatchFilename(s) ==
  IF \E i \in 1..Len(s) : MatchAt(s, i)
    THEN LET i == CHOOSE i \in 1..Len(s) :
                    MatchAt(s, i) /\ \A k \in 1..(i - 1) : ~MatchAt(s, k)
             q == CaptureStart(s, i)
         IN SubSeq(s, q, CaptureEnd(s, q))
    ELSE <<>>

\* lines 98-100: header (or "") -> match -> filename; headers.get gives
\* null for a header the response does not carry
ResolveFilename(header) ==
  LET disposition == IF header.present THEN header.value ELSE <<>>
      captured == MatchFilename(disposition)
  IN IF captured # <<>> THEN captured ELSE DefaultName

\* ------------------------------------------------ error response bodies
\* a JSON value found in the detail field: absent (undefined), a string, or
\* an array of n objects (the shape of a validation-error list)
Absent == [t |-> "absent", s |-> "", n |-> 0]
StrVal(s) == [t |-> "str", s |-> s, n |-> 0]
ArrVal(n) == [t |-> "arr", s |-> "", n |-> n]

\* JavaScript truthiness
Truthy(v) ==
  CASE v.t = "absent" -> FALSE
    [] v.t = "str" -> v.s # ""
    [] v.t = "arr" -> TRUE

\* JavaScript String(v), as applied by the Error constructor
ToStr(v) ==
  CASE v.t = "str" -> v.s
    [] v.t = "arr" -> IF v.n = 0 THEN "" ELSE "[object Object]"
    [] v.t = "absent" -> ""

\* what res.json() finds: an undecodable body, the JSON value null, or an
\* object with or without a detail field
InvalidBody == [kind |-> "invalid", detail |-> Absent]
NullBody == [kind |-> "null", detail |-> Absent]
ObjectBody(d) == [kind |-> "object", detail |-> d]
NoBody == [kind |-> "none", detail |-> Absent]

\* lines 94-95: the message of the error thrown for a non-success response
ThrownMessage(body) ==
  IF body.kind = "null"
    THEN NullDetailTypeError
    ELSE LET err == IF body.kind = "invalid" THEN ObjectBody(Absent) ELSE body
         IN IF Truthy(err.detail) THEN ToStr(err.detail) ELSE RequestFailed

\* line 112: err?.message || "Something went wrong"
CatchMessage(message) ==
  IF message # "" THEN message ELSE SomethingWentWrong

\* -------------------------------------------------- environment inputs
LetterPdf == <<"l","e","t","t","e","r",".","p","d","f">>
Attachment == <<"a","t","t","a","c","h","m","e","n","t",";"," ">>
KeySpellings == { FilenameKey,
                  <<"F","I","L","E","N","A","M","E","=">>,
                  <<"F","i","l","e","N","a","m","e","=">> }

\* a Content-Disposition value carrying spelling key and the name, quoted or not
WithName(key, quoted, name) ==
  Attachment \o key \o (IF quoted THEN <<Quote>> ELSE <<>>) \o name
             \o (IF quoted THEN <<Quote>> ELSE <<>>)

Header(present, value, named, name) ==
  [present |-> present, value |-> value, named |-> named, name |-> name]

\* the headers a success response may carry; named/name record how the
\* value was built: whether it carries filename="<name>", and the name
Headers ==
  { Header(FALSE, <<>>, FALSE, <<>>),
    Header(TRUE, <<"i","n","l","i","n","e">>, FALSE, <<>>),
    Header(TRUE, Attachment \o FilenameKey \o <<Quote, Quote>>, FALSE, <<>>) }
  \cup { Header(TRUE, WithName(k, TRUE, LetterPdf), TRUE, LetterPdf) :
           k \in KeySpellings }
  \cup { Header(TRUE, WithName(FilenameKey, FALSE, <<"a">>), TRUE, <<"a">>) }

Bodies ==
  { InvalidBody, NullBody, ObjectBody(Absent), ObjectBody(StrVal("")),
    ObjectBody(StrVal("rate limited")), ObjectBody(ArrVal(0)),
    ObjectBody(ArrVal(1)) }

\* messages of a rejected fetch() or blob()
RejectMessages == {"Failed to fetch", ""}

\* ------------------------------------------------- object-URL registry
\* URL.createObjectURL(blob): a fresh URL for the blob; urls[u] records the
\* blob (the submission whose response it is) and how often u was revoked
CreateObjectURL(u, blob) == Append(u, [blob |-> blob, revokes |-> 0])

\* URL.revokeObjectURL(h)
RevokeObjectURL(u, h) == [u EXCEPT ![h].revokes = @ + 1]

Live(u) == { h \in DOMAIN u : u[h].revokes = 0 }

\* EffectCleanup revoking the value just committed instead of the one the
\* cleanup closed over
EffectCleanupRevokingNew(u, old, new) ==
  IF old # new /\ new # NullUrl THEN RevokeObjectURL(u, new) ELSE u

\* lines 27-31: the cleanup of the effect keyed on pdfUrl runs with the
\* value it closed over when a render commits a different pdfUrl
EffectCleanup(u, old, new) ==
  IF old # new /\ old # NullUrl THEN RevokeObjectURL(u, old) ELSE u

\* lines 27-31 at teardown: the cleanup of the last committed effect
UnmountCleanup(u, current) ==
  IF current # NullUrl THEN RevokeObjectURL(u, current) ELSE u

\* lines 72-76: handleSubmit revokes the pdfUrl of the render it runs in
ResetPrevious(u, current) ==
  IF current # NullUrl THEN RevokeObjectURL(u, current) ELSE u

\* the side effects of a handleSubmit invocation are logged in the order
\* they take place; a call that changes nothing (revoking a URL that is
\* already revoked, clearing an empty preview) is no side effect
RevokeEffect(u, h) ==
  IF h # NullUrl /\ h \in Live(u) THEN <<"revoke">> ELSE <<>>

ClearEffect(images) == IF images # <<>> THEN <<"clear">> ELSE <<>>

\* ------------------------------------------------------------- the form
\* ButtonEnabled with disabled={!file}
ButtonEnabledWhileLoading == ~(file = Null)

\* line 181: disabled={loading || !file}
ButtonEnabled == ~(loading \/ file = Null)

\* FormValid with the textarea not required
FormValidFileOnly == file # Null

\* lines 149 and 176: both inputs are required, so the browser fires the
\* form's submit event only when a file is chosen and the text is non-empty
FormValid == file # Null /\ jobDescription # ""

\* SubmitAccepted with the submit event reaching the form although its
\* button is disabled
SubmitAcceptedWhileDisabled == mounted /\ FormValid

SubmitAccepted == mounted /\ ButtonEnabled /\ FormValid

\* ---------------------------------------------------------------- tasks
Artifact ==
  [pdfUrl |-> pdfUrl,
   live |-> pdfUrl # NullUrl /\ pdfUrl \in Live(urls),
   pdfName |-> pdfName,
   pageImages |-> pageImages]

\* lines 72-77 and the commit that follows: revoke, clear, effect cleanup
SubmitEffects ==
  RevokeEffect(urls, pdfUrl) \o ClearEffect(pageImages)
    \o RevokeEffect(EffectCleanup(ResetPrevious(urls, pdfUrl), pdfUrl, NullUrl),
                    pdfUrl)

\* lines 106-110 and the commit that follows: the URL is created, the render
\* started (line 35 clears the preview), and the effect cleanup runs
BlobEffects(created, url) ==
  <<"create", "render">>
    \o (IF mounted
          THEN ClearEffect(pageImages)
                 \o (IF pdfUrl # url THEN RevokeEffect(created, pdfUrl)
                                     ELSE <<>>)
          ELSE <<>>)

\* a handleSubmit invocation up to its first await (line 88)
NewTask ==
  [pc |-> "fetch",
   effects |-> SubmitEffects,
   payload |-> [resume |-> file, job_description |-> jobDescription,
                output |-> "pdf", template |-> template],
   before |-> Artifact,
   posts |-> 1,
   named |-> FALSE, name |-> <<>>, filename |-> <<>>,
   body |-> NoBody,
   url |-> NullUrl,
   numPages |-> 0, pageNum |-> 0, images |-> <<>>,
   errorsSet |-> 0,
   outcome |-> "pending"]

Running(i) == i \in DOMAIN tasks /\ tasks[i].pc # "done"

\* the record kept of a finished invocation once a later one has started:
\* the file and the description its request carried, and the URL it created
Retired(t) ==
  IF t.pc = "done"
    THEN [t EXCEPT !.before = [pdfUrl |-> NullUrl, live |-> FALSE,
                               pdfName |-> <<>>, pageImages |-> <<>>],
                   !.named = FALSE, !.name = <<>>, !.filename = <<>>,
                   !.body = NoBody,
                   !.numPages = 0, !.pageNum = 0, !.images = <<>>,
                   !.errorsSet = 0, !.outcome = "retired", !.effects = <<>>,
                   !.payload = [resume |-> t.payload.resume,
                                job_description |-> t.payload.job_description]]
    ELSE t

\* a state setter called after teardown has no effect
Set(old, new) == IF mounted THEN new ELSE old

\* no save has been triggered yet
NoSave == [href |-> NullUrl, download |-> <<>>, live |-> FALSE]

Init ==
  /\ file = Null
  /\ jobDescription = ""
  /\ template = "classic"
  /\ loading = FALSE
  /\ error = ""
  /\ pdfUrl = NullUrl
  /\ pdfName = DefaultName
  /\ pageImages = <<>>
  /\ renderingPreview = FALSE
  /\ mounted = TRUE
  /\ urls = <<>>
  /\ tasks = <<>>
  /\ saved = NoSave

\* line 150: onChange of the file input
SetFile(f) ==
  /\ mounted
  /\ f # file
  /\ file' = f
  /\ UNCHANGED <<jobDescription, template, loading, error, pdfUrl, pdfName,
                 pageImages, renderingPreview, mounted, urls, tasks,
                 saved>>

\* line 174: onChange of the textarea
SetJobDescription(d) ==
  /\ mounted
  /\ d # jobDescription
  /\ jobDescription' = d
  /\ UNCHANGED <<file, template, loading, error, pdfUrl, pdfName,
                 pageImages, renderingPreview, mounted, urls, tasks,
                 saved>>

\* line 161: onChange of the template select
SetTemplate(t) ==
  /\ mounted
  /\ t # template
  /\ template' = t
  /\ UNCHANGED <<file, jobDescription, loading, error, pdfUrl, pdfName,
                 pageImages, renderingPreview, mounted, urls, tasks,
                 saved>>

\* Submit without the clearing of the error (line 70)
SubmitKeepingError ==
  /\ SubmitAccepted
  /\ Len(tasks) < MaxSubmits
  /\ pdfUrl' = NullUrl
  /\ urls' = EffectCleanup(ResetPrevious(urls, pdfUrl), pdfUrl, NullUrl)
  /\ pageImages' = <<>>
  /\ loading' = TRUE
  /\ tasks' = Append([i \in DOMAIN tasks |-> Retired(tasks[i])], NewTask)
  /\ saved' = NoSave
  /\ UNCHANGED <<file, jobDescription, template, error, pdfName,
                 renderingPreview, mounted>>

\* Submit without the clearing of the previous preview (line 77)
SubmitKeepingPreview ==
  /\ SubmitAccepted
  /\ Len(tasks) < MaxSubmits
  /\ error' = ""
  /\ pdfUrl' = NullUrl
  /\ urls' = EffectCleanup(ResetPrevious(urls, pdfUrl), pdfUrl, NullUrl)
  /\ loading' = TRUE
  /\ tasks' = Append([i \in DOMAIN tasks |-> Retired(tasks[i])], NewTask)
  /\ saved' = NoSave
  /\ UNCHANGED <<file, jobDescription, template, pdfName, pageImages,
                 renderingPreview, mounted>>

\* Submit without the reset of the previous output (lines 72-77)
SubmitKeepingPrevious ==
  /\ SubmitAccepted
  /\ Len(tasks) < MaxSubmits
  /\ error' = ""
  /\ loading' = TRUE
  /\ tasks' = Append([i \in DOMAIN tasks |-> Retired(tasks[i])],
                     [NewTask EXCEPT !.effects = <<>>])
  /\ saved' = NoSave
  /\ UNCHANGED <<file, jobDescription, template, pdfUrl, pdfName, pageImages,
                 renderingPreview, mounted, urls>>

\* lines 68-91: handleSubmit from the submit event to the await of fetch,
\* and the render that commits its state updates (with the effect cleanup);
\* the output on display is reset, and the record of its save with it
Submit ==
  /\ SubmitAccepted
  /\ Len(tasks) < MaxSubmits
  /\ error' = ""
  /\ pdfUrl' = NullUrl
  /\ urls' = EffectCleanup(ResetPrevious(urls, pdfUrl), pdfUrl, NullUrl)
  /\ pageImages' = <<>>
  /\ loading' = TRUE
  /\ tasks' = Append([i \in DOMAIN tasks |-> Retired(tasks[i])], NewTask)
  /\ saved' = NoSave
  /\ UNCHANGED <<file, jobDescription, template, pdfName, renderingPreview,
                 mounted>>

\* a submit attempt the form does not accept: the button is disabled, or
\* the browser's validation of the required inputs stops the submit event
SubmitBlocked ==
  /\ mounted
  /\ ~(ButtonEnabled /\ FormValid)
  /\ UNCHANGED vars

\* line 88 rejects (transport error); lines 111-115
FetchRejects(i, msg) ==
  /\ Running(i) /\ tasks[i].pc = "fetch"
  /\ error' = Set(error, CatchMessage(msg))
  /\ loading' = Set(loading, FALSE)
  /\ tasks' = [tasks EXCEPT ![i].pc = "done", ![i].outcome = "transport",
                            ![i].errorsSet = @ + 1]
  /\ UNCHANGED <<file, jobDescription, template, pdfUrl, pdfName, pageImages,
                 renderingPreview, mounted, urls, saved>>

\* line 93: a response with a non-success status; line 94 awaits res.json()
FetchNotOk(i) ==
  /\ Running(i) /\ tasks[i].pc = "fetch"
  /\ tasks' = [tasks EXCEPT ![i].pc = "json"]
  /\ UNCHANGED <<uiVars, mounted, urls, saved>>

\* lines 94-95 and 111-115: res.json() settles, the error is thrown and caught
JsonSettles(i, body) ==
  /\ Running(i) /\ tasks[i].pc = "json"
  /\ error' = Set(error, CatchMessage(ThrownMessage(body)))
  /\ loading' = Set(loading, FALSE)
  /\ tasks' = [tasks EXCEPT ![i].pc = "done", ![i].outcome = "status",
                            ![i].body = body, ![i].errorsSet = @ + 1]
  /\ UNCHANGED <<file, jobDescription, template, pdfUrl, pdfName, pageImages,
                 renderingPreview, mounted, urls, saved>>

\* lines 98-103: a success response; the filename is stored, blob() awaited
FetchOk(i, header) ==
  /\ Running(i) /\ tasks[i].pc = "fetch"
  /\ pdfName' = Set(pdfName, ResolveFilename(header))
  /\ tasks' = [tasks EXCEPT ![i].pc = "blob", ![i].named = header.named,
                            ![i].name = header.name,
                            ![i].filename = ResolveFilename(header)]
  /\ UNCHANGED <<file, jobDescription, template, loading, error, pdfUrl,
                 pageImages, renderingPreview, mounted, urls,
                 saved>>

\* line 103 rejects (the body cannot be read); lines 111-115
BlobRejects(i, msg) ==
  /\ Running(i) /\ tasks[i].pc = "blob"
  /\ error' = Set(error, CatchMessage(msg))
  /\ loading' = Set(loading, FALSE)
  /\ tasks' = [tasks EXCEPT ![i].pc = "done", ![i].outcome = "bodyread",
                            ![i].errorsSet = @ + 1]
  /\ UNCHANGED <<file, jobDescription, template, pdfUrl, pdfName, pageImages,
                 renderingPreview, mounted, urls, saved>>

\* BlobOk with renderPdfToImages not awaited: the finally block of
\* handleSubmit (line 114) runs as soon as the render has started
BlobOkNotAwaitingPreview(i) ==
  /\ Running(i) /\ tasks[i].pc = "blob"
  /\ LET created == CreateObjectURL(urls, i)
         url == Len(created)
     IN /\ pdfUrl' = Set(pdfUrl, url)
        /\ urls' = IF mounted THEN EffectCleanup(created, pdfUrl, url)
                              ELSE created
        /\ tasks' = [tasks EXCEPT ![i].pc = "arrayBuffer", ![i].url = url,
                                  ![i].effects = @ \o BlobEffects(created, url)]
  /\ renderingPreview' = Set(renderingPreview, TRUE)
  /\ pageImages' = Set(pageImages, <<>>)
  /\ loading' = Set(loading, FALSE)
  /\ UNCHANGED <<file, jobDescription, template, error, pdfName, mounted,
                 saved>>

\* lines 103-110 and 33-38: the blob arrives, its URL is created and stored,
\* renderPdfToImages starts and awaits blob.arrayBuffer(); the render that
\* commits the new pdfUrl runs the cleanup of the previous one
BlobOk(i) ==
  /\ Running(i) /\ tasks[i].pc = "blob"
  /\ LET created == CreateObjectURL(urls, i)
         url == Len(created)
     IN /\ pdfUrl' = Set(pdfUrl, url)
        /\ urls' = IF mounted THEN EffectCleanup(created, pdfUrl, url)
                              ELSE created
        /\ tasks' = [tasks EXCEPT ![i].pc = "arrayBuffer", ![i].url = url,
                                  ![i].effects = @ \o BlobEffects(created, url)]
  /\ renderingPreview' = Set(renderingPreview, TRUE)
  /\ pageImages' = Set(pageImages, <<>>)
  /\ UNCHANGED <<file, jobDescription, template, loading, error, pdfName,
                 mounted, saved>>

\* line 38 resolves; line 39 awaits getDocument
ArrayBufferOk(i) ==
  /\ Running(i) /\ tasks[i].pc = "arrayBuffer"
  /\ tasks' = [tasks EXCEPT ![i].pc = "getDocument"]
  /\ UNCHANGED <<uiVars, mounted, urls, saved>>

\* lines 59 and 63-64, then 113-114: the images are published, and the two
\* finally blocks run
FinishPreview(i, images) ==
  /\ pageImages' = Set(pageImages, images)
  /\ renderingPreview' = Set(renderingPreview, FALSE)
  /\ loading' = Set(loading, FALSE)
  /\ tasks' = [tasks EXCEPT ![i].pc = "done", ![i].outcome = "success",
                            ![i].images = images]
  /\ UNCHANGED <<file, jobDescription, template, error, pdfUrl, pdfName,
                 mounted, urls, saved>>

\* lines 39-43: the document is decoded as n pages; the loop starts
GetDocumentOk(i, n) ==
  /\ Running(i) /\ tasks[i].pc = "getDocument"
  /\ IF 1 <= n
       THEN /\ tasks' = [tasks EXCEPT ![i].pc = "getPage", ![i].numPages = n,
                                      ![i].pageNum = 1, ![i].images = <<>>]
            /\ UNCHANGED <<uiVars, mounted, urls, saved>>
       ELSE FinishPreview(i, <<>>)

\* lines 43-54: the page is fetched; its render is awaited
GetPageOk(i) ==
  /\ Running(i) /\ tasks[i].pc = "getPage"
  /\ tasks' = [tasks EXCEPT ![i].pc = "render"]
  /\ UNCHANGED <<uiVars, mounted, urls, saved>>

\* RenderOk with setPageImages called inside the loop, page by page
RenderOkPublishingEachPage(i) ==
  /\ Running(i) /\ tasks[i].pc = "render"
  /\ LET images == Append(tasks[i].images,
                          [blob |-> i, page |-> tasks[i].pageNum])
     IN IF tasks[i].pageNum + 1 <= tasks[i].numPages
          THEN /\ tasks' = [tasks EXCEPT ![i].pc = "getPage",
                                         ![i].pageNum = @ + 1,
                                         ![i].images = images]
               /\ pageImages' = Set(pageImages, images)
               /\ UNCHANGED <<file, jobDescription, template, loading, error,
                              pdfUrl, pdfName, renderingPreview, mounted, urls,
                              saved>>
          ELSE FinishPreview(i, images)

\* RenderOk with the loop bound off by one (pageNum < pdf.numPages)
RenderOkStoppingEarly(i) ==
  /\ Running(i) /\ tasks[i].pc = "render"
  /\ LET images == Append(tasks[i].images,
                          [blob |-> i, page |-> tasks[i].pageNum])
     IN IF tasks[i].pageNum + 1 < tasks[i].numPages
          THEN /\ tasks' = [tasks EXCEPT ![i].pc = "getPage",
                                         ![i].pageNum = @ + 1,
                                         ![i].images = images]
               /\ UNCHANGED <<uiVars, mounted, urls, saved>>
          ELSE FinishPreview(i, images)

\* lines 54-59: the page is rendered and its image pushed; the loop goes on
\* or ends
RenderOk(i) ==
  /\ Running(i) /\ tasks[i].pc = "render"
  /\ LET images == Append(tasks[i].images,
                          [blob |-> i, page |-> tasks[i].pageNum])
     IN IF tasks[i].pageNum + 1 <= tasks[i].numPages
          THEN /\ tasks' = [tasks EXCEPT ![i].pc = "getPage",
                                         ![i].pageNum = @ + 1,
                                         ![i].images = images]
               /\ UNCHANGED <<uiVars, mounted, urls, saved>>
          ELSE FinishPreview(i, images)

\* PreviewFails without handleSubmit's finally block (lines 113-114)
PreviewFailsLeavingLoading(i) ==
  /\ Running(i)
  /\ tasks[i].pc \in {"arrayBuffer", "getDocument", "getPage", "render"}
  /\ error' = Set(error, PreviewFailed)
  /\ renderingPreview' = Set(renderingPreview, FALSE)
  /\ tasks' = [tasks EXCEPT ![i].pc = "done", ![i].outcome = "previewfail",
                            ![i].errorsSet = @ + 1]
  /\ UNCHANGED <<file, jobDescription, template, loading, pdfUrl, pdfName,
                 pageImages, mounted, urls, saved>>

\* PreviewFails publishing the pages rendered before the failure
PreviewFailsPublishingPartial(i) ==
  /\ Running(i)
  /\ tasks[i].pc \in {"arrayBuffer", "getDocument", "getPage", "render"}
  /\ error' = Set(error, PreviewFailed)
  /\ pageImages' = Set(pageImages, tasks[i].images)
  /\ renderingPreview' = Set(renderingPreview, FALSE)
  /\ loading' = Set(loading, FALSE)
  /\ tasks' = [tasks EXCEPT ![i].pc = "done", ![i].outcome = "previewfail",
                            ![i].errorsSet = @ + 1]
  /\ UNCHANGED <<file, jobDescription, template, pdfUrl, pdfName, mounted,
                 urls, saved>>

\* lines 60-65, then 113-114: an await of renderPdfToImages rejects
PreviewFails(i) ==
  /\ Running(i)
  /\ tasks[i].pc \in {"arrayBuffer", "getDocument", "getPage", "render"}
  /\ error' = Set(error, PreviewFailed)
  /\ renderingPreview' = Set(renderingPreview, FALSE)
  /\ loading' = Set(loading, FALSE)
  /\ tasks' = [tasks EXCEPT ![i].pc = "done", ![i].outcome = "previewfail",
                            ![i].errorsSet = @ + 1]
  /\ UNCHANGED <<file, jobDescription, template, pdfUrl, pdfName, pageImages,
                 mounted, urls, saved>>

\* handleDownload revoking the URL once the click is dispatched
HandleDownloadRevoking ==
  /\ mounted
  /\ IF pdfUrl = NullUrl
       THEN UNCHANGED vars
       ELSE /\ saved' = [href |-> pdfUrl, download |-> pdfName,
                         live |-> pdfUrl \in Live(urls)]
            /\ urls' = RevokeObjectURL(urls, pdfUrl)
            /\ UNCHANGED <<uiVars, mounted, tasks>>

\* lines 118-126: handleDownload; the click on the temporary anchor saves
\* the bytes behind pdfUrl under pdfName (live: the URL was not revoked then)
HandleDownload ==
  /\ mounted
  /\ IF pdfUrl = NullUrl
       THEN UNCHANGED vars
       ELSE /\ saved' = [href |-> pdfUrl, download |-> pdfName,
                         live |-> pdfUrl \in Live(urls)]
            /\ UNCHANGED <<uiVars, mounted, urls, tasks>>

\* the component is torn down: the effect cleanup runs for the last time
Unmount ==
  /\ mounted
  /\ mounted' = FALSE
  /\ urls' = UnmountCleanup(urls, pdfUrl)
  /\ UNCHANGED <<uiVars, tasks, saved>>

Next ==
  \/ \E f \in Files \cup {Null} : SetFile(f)
  \/ \E d \in Descriptions : SetJobDescription(d)
  \/ \E t \in Templates : SetTemplate(t)
  \/ Submit
  \/ SubmitBlocked
  \/ \E i \in 1..MaxSubmits, msg \in RejectMessages : FetchRejects(i, msg)
  \/ \E i \in 1..MaxSubmits : FetchNotOk(i)
  \/ \E i \in 1..MaxSubmits, body \in Bodies : JsonSettles(i, body)
  \/ \E i \in 1..MaxSubmits, header \in Headers : FetchOk(i, header)
  \/ \E i \in 1..MaxSubmits, msg \in RejectMessages : BlobRejects(i, msg)
  \/ \E i \in 1..MaxSubmits : BlobOk(i)
  \/ \E i \in 1..MaxSubmits : ArrayBufferOk(i)
  \/ \E i \in 1..MaxSubmits, n \in 1..MaxPages : GetDocumentOk(i, n)
  \/ \E i \in 1..MaxSubmits : GetPageOk(i)
  \/ \E i \in 1..MaxSubmits : RenderOk(i)
  \/ \E i \in 1..MaxSubmits : PreviewFails(i)
  \/ HandleDownload
  \/ Unmount

Spec == Init /\ [][Next]_vars

\* the network call, the reads of the body and each step of the preview
\* render eventually complete or fail
Completion ==
  \/ \E i \in 1..MaxSubmits, msg \in RejectMessages : FetchRejects(i, msg)
  \/ \E i \in 1..MaxSubmits : FetchNotOk(i)
  \/ \E i \in 1..MaxSubmits, body \in Bodies : JsonSettles(i, body)
  \/ \E i \in 1..MaxSubmits, header \in Headers : FetchOk(i, header)
  \/ \E i \in 1..MaxSubmits, msg \in RejectMessages : BlobRejects(i, msg)
  \/ \E i \in 1..MaxSubmits : BlobOk(i)
  \/ \E i \in 1..MaxSubmits : ArrayBufferOk(i)
  \/ \E i \in 1..MaxSubmits, n \in 1..MaxPages : GetDocumentOk(i, n)
  \/ \E i \in 1..MaxSubmits : GetPageOk(i)
  \/ \E i \in 1..MaxSubmits : RenderOk(i)
  \/ \E i \in 1..MaxSubmits : PreviewFails(i)

FairSpec == Init /\ [][Next]_vars /\ WF_vars(Completion)

\* ================================================================ claims
Failures == {"transport", "status", "bodyread"}

\* the invocation has received a success response (line 93 passed)
GotOk(t) ==
  \/ t.pc \in {"blob", "arrayBuffer", "getDocument", "getPage", "render"}
  \/ t.outcome \in {"bodyread", "previewfail", "success"}

\* C1: at any time at most one object URL is created and not yet revoked.
AtMostOneLive == Cardinality(Live(urls)) <= 1

\* a second response's URL is live after the first one's was revoked
AtMostOneLiveWitness ==
  \E g, h \in DOMAIN urls : urls[g].revokes > 0 /\ urls[h].revokes = 0

\* C2: no object URL is revoked more than once (handleSubmit's revoke and
\* the effect cleanup's counted together).
RevokedAtMostOnce == \A h \in DOMAIN urls : urls[h].revokes <= 1

\* C3 (as claimed): after a failed submission the artifact (download
\* reference and its liveness, filename, preview pages) is exactly what it
\* was before the submission started.
FailureRestoresArtifact ==
  \A i \in DOMAIN tasks :
    tasks[i].outcome \in Failures => Artifact = tasks[i].before

\* C3 (amended): after a failed submission no artifact is held: pdfUrl is
\* null, no object URL is live and the preview is empty, whatever was held
\* before; the filename is the earlier one after a transport error or a
\* non-success status, and the one resolved from the response's header after
\* a body-read failure (while the component is mounted).
FailureLeavesNoArtifact ==
  \A i \in DOMAIN tasks :
    tasks[i].outcome \in Failures =>
      /\ pdfUrl = NullUrl
      /\ Live(urls) = {}
      /\ pageImages = <<>>
      /\ tasks[i].outcome \in {"transport", "status"} =>
           pdfName = tasks[i].before.pdfName
      /\ tasks[i].outcome = "bodyread" /\ mounted =>
           pdfName = tasks[i].filename

\* a resubmission failed while a complete artifact was held before it
FailureLeavesNoArtifactWitness ==
  \E i \in DOMAIN tasks :
    /\ tasks[i].outcome \in Failures
    /\ tasks[i].before.live
    /\ tasks[i].before.pageImages # <<>>

\* C4: after teardown no created object URL is left un-revoked, whatever
\* the interleaving of teardown with a submission in flight.
TeardownRevokesAll == ~mounted => Live(urls) = {}

\* C5: every request sent carries a selected file and a non-empty
\* description: no request is issued from a state lacking either.
RequestsCarryFileAndDescription ==
  \A i \in DOMAIN tasks :
    /\ tasks[i].payload.resume # Null
    /\ tasks[i].payload.job_description # ""

\* a request has been sent, and now a file is selected with an empty
\* description: the submit attempt is blocked
RequestsCarryFileAndDescriptionWitness ==
  /\ Len(tasks) = 1
  /\ mounted /\ ~loading
  /\ file # Null /\ jobDescription = ""
  /\ ~SubmitAccepted

\* C6: each accepted submit sends exactly one POST, at most one invocation
\* is in flight at a time, and while one is, loading is true and no submit
\* is accepted.
OneRequestPerSubmit ==
  /\ \A i \in DOMAIN tasks : tasks[i].posts = 1
  /\ Cardinality({ i \in DOMAIN tasks : Running(i) }) <= 1
  /\ mounted /\ (\E i \in DOMAIN tasks : Running(i)) =>
       loading /\ ~SubmitAccepted

\* a failed submission has ended with its single POST, a file still selected
OneRequestPerSubmitWitness ==
  /\ Len(tasks) >= 1
  /\ tasks[Len(tasks)].outcome \in Failures
  /\ tasks[Len(tasks)].posts = 1
  /\ SubmitAccepted

\* C7: whenever the preview is non-empty, all its images were rendered from
\* the blob that pdfUrl refers to, never from a superseded submission.
PreviewFromCurrentArtifact ==
  pageImages # <<>> =>
    /\ pdfUrl # NullUrl
    /\ \A k \in DOMAIN pageImages : pageImages[k].blob = urls[pdfUrl].blob

\* the preview of a second submission is shown
PreviewFromCurrentArtifactWitness ==
  /\ Len(tasks) >= 2
  /\ pageImages # <<>>
  /\ pageImages[1].blob = Len(tasks)

\* C8: after a preview failure (while mounted) the preview is empty, the
\* preview error is shown, and the URL created for that response is still
\* stored in pdfUrl and live.
PreviewFailureKeepsDownload ==
  \A i \in DOMAIN tasks :
    tasks[i].outcome = "previewfail" /\ mounted =>
      /\ pageImages = <<>>
      /\ error = PreviewFailed
      /\ ~renderingPreview
      /\ pdfUrl # NullUrl
      /\ pdfUrl = tasks[i].url
      /\ pdfUrl \in Live(urls)
      /\ urls[pdfUrl].blob = i

\* the render failed after at least one page had been rendered
PreviewFailureKeepsDownloadWitness ==
  \E i \in DOMAIN tasks :
    /\ tasks[i].outcome = "previewfail"
    /\ mounted
    /\ tasks[i].images # <<>>

\* the error the claim expects for a non-success response with this body
ClaimedError(body) ==
  IF /\ body.kind = "object"
     /\ \/ body.detail.t = "str" /\ body.detail.s # ""
        \/ body.detail.t = "arr" /\ body.detail.n > 0
    THEN ToStr(body.detail)
    ELSE RequestFailed

\* C9: after a non-success response the error shown is the body's detail
\* when the body decodes and detail is present and non-empty, otherwise
\* "Request failed"; one error string is set for the submission.
StatusErrorIsDetailOrGeneric ==
  \A i \in DOMAIN tasks :
    tasks[i].outcome = "status" /\ mounted =>
      /\ error = ClaimedError(tasks[i].body)
      /\ tasks[i].errorsSet = 1

\* C10: after a success response (while mounted) the stored filename is the
\* name carried by the header's filename="<name>", in any letter case, and
\* cover_letter.pdf when the header is missing or carries none.
StoredFilenameFromHeader ==
  \A i \in DOMAIN tasks :
    GotOk(tasks[i]) /\ mounted =>
      pdfName = IF tasks[i].named THEN tasks[i].name ELSE DefaultName

\* a success without a name follows a submission that resolved letter.pdf
StoredFilenameFromHeaderWitness ==
  \E i \in DOMAIN tasks :
    /\ GotOk(tasks[i]) /\ mounted
    /\ ~tasks[i].named
    /\ tasks[i].before.pdfName = LetterPdf
    /\ pdfName = DefaultName

\* the images of pages 1..n of the document of response i, in page order
PagesOf(i, n) == [k \in 1..n |-> [blob |-> i, page |-> k]]

\* C11: a successful response with an n-page document publishes exactly the
\* renderings of pages 1..n in page order; while the loop runs, the pages
\* before pageNum, and only those, have been rendered (one page at a time).
PreviewMatchesDocument ==
  \A i \in DOMAIN tasks :
    /\ tasks[i].outcome = "success" =>
         /\ tasks[i].images = PagesOf(i, tasks[i].numPages)
         /\ mounted => pageImages = PagesOf(i, tasks[i].numPages)
    /\ tasks[i].pc \in {"getPage", "render"} =>
         /\ tasks[i].pageNum \in 1..tasks[i].numPages
         /\ tasks[i].images = PagesOf(i, tasks[i].pageNum - 1)

\* a document of two or more pages has been published
PreviewMatchesDocumentWitness ==
  \E i \in DOMAIN tasks :
    /\ tasks[i].outcome = "success"
    /\ tasks[i].numPages >= 2
    /\ mounted
    /\ Len(pageImages) = tasks[i].numPages

\* C12: a step that triggers a save happens only with an artifact held,
\* saves the current pdfUrl under the current pdfName, and changes no
\* component state and no object URL; without an artifact nothing is saved.
DownloadChangesNothing ==
  [][saved' # saved /\ saved' # NoSave =>
       /\ pdfUrl # NullUrl
       /\ saved'.href = pdfUrl /\ saved'.download = pdfName
       /\ UNCHANGED <<uiVars, mounted, urls, tasks>>]_vars

\* the artifact on display has been saved, and is still held and live
DownloadChangesNothingWitness ==
  /\ mounted
  /\ saved.href # NullUrl
  /\ saved.href = pdfUrl /\ saved.download = pdfName
  /\ pdfUrl \in Live(urls)
  /\ pageImages # <<>>

RequestSteps == {"fetch", "json", "blob"}
PreviewSteps == {"arrayBuffer", "getDocument", "getPage", "render"}

\* C13 (as claimed): with a file selected, the submit button is disabled
\* exactly while the network request is outstanding, so it is enabled while
\* the preview pages are being rendered.
DisabledOnlyDuringRequest ==
  mounted /\ file # Null =>
    (~ButtonEnabled <=> \E i \in DOMAIN tasks : tasks[i].pc \in RequestSteps)

\* C13 (amended): with a file selected, the submit button is disabled from
\* the accepted submit until handleSubmit's finally block, that is through
\* the network request and the rendering of the preview pages; no submission
\* can be started while a preview is being rendered.
DisabledUntilPreviewDone ==
  mounted /\ file # Null =>
    (~ButtonEnabled <=> \E i \in DOMAIN tasks : Running(i))

\* a page is being rendered, the form is filled in, and no submit is accepted
DisabledUntilPreviewDoneWitness ==
  /\ mounted
  /\ \E i \in DOMAIN tasks : tasks[i].pc = "render"
  /\ FormValid
  /\ renderingPreview
  /\ ~SubmitAccepted

\* the order the side effects of a submission are to take
Rank(e) ==
  CASE e = "revoke" -> 1 [] e = "clear" -> 2 [] e = "create" -> 3
    [] e = "render" -> 4

\* C14: the side effects of a submission take place in the order revoke the
\* previous URL, clear the previous preview, create the new URL, start the
\* preview render, each at most once; once the blob has arrived they are
\* exactly these, the first two when there was something to revoke, to clear.
EffectsInOrder ==
  \A i \in DOMAIN tasks :
    LET e == tasks[i].effects
    IN /\ \A j, k \in DOMAIN e : j < k => Rank(e[j]) < Rank(e[k])
       /\ tasks[i].url # NullUrl /\ tasks[i].outcome # "retired" =>
            e = (IF tasks[i].before.live THEN <<"revoke">> ELSE <<>>)
                \o (IF tasks[i].before.pageImages # <<>>
                      THEN <<"clear">> ELSE <<>>)
                \o <<"create", "render">>

\* a successful resubmission went through all four steps
EffectsInOrderWitness ==
  \E i \in DOMAIN tasks :
    /\ tasks[i].outcome = "success"
    /\ tasks[i].effects = <<"revoke", "clear", "create", "render">>

\* the session's state: Empty before the first submission, Pending while
\* the latest one runs, then Failed when its request failed, else Ready
Phase ==
  IF tasks = <<>> THEN "Empty"
  ELSE IF tasks[Len(tasks)].pc # "done" THEN "Pending"
  ELSE IF tasks[Len(tasks)].outcome \in Failures THEN "Failed"
  ELSE "Ready"

PhaseSteps ==
  { <<"Empty", "Pending">>, <<"Pending", "Ready">>, <<"Pending", "Failed">>,
    <<"Ready", "Pending">>, <<"Failed", "Pending">> }

\* C15: the session moves Empty -> Pending -> Ready | Failed and from Ready
\* or Failed back to Pending; on entry to Pending no artifact is left (the
\* prior URL is revoked), and in Failed none is held: pdfUrl is null, no
\* object URL is live and the preview is empty.
SessionPhases ==
  [][/\ Phase' # Phase =>
          /\ <<Phase, Phase'>> \in PhaseSteps
          /\ Phase' = "Pending" =>
               pdfUrl' = NullUrl /\ Live(urls') = {} /\ pageImages' = <<>>
     /\ Phase' = "Failed" =>
          pdfUrl' = NullUrl /\ Live(urls') = {} /\ pageImages' = <<>>]_vars

\* the session is in Failed after having been in Ready
SessionPhasesWitness ==
  /\ Phase = "Failed"
  /\ Len(tasks) >= 2
  /\ tasks[Len(tasks)].before.live
  /\ error # ""

AnyRunning == \E i \in DOMAIN tasks : Running(i)

\* C16: every accepted submission ends (success, request failure, body-read
\* failure or preview failure) and with it loading is false again; then,
\* while mounted, the button is enabled whenever a file is selected and a
\* submit with the form filled in is accepted.
EverySubmissionEnds ==
  /\ [](mounted /\ ~AnyRunning =>
          /\ ~loading
          /\ ButtonEnabled <=> file # Null
          /\ FormValid => SubmitAccepted)
  /\ (AnyRunning ~> ~AnyRunning)

\* a submission has ended in a preview failure and the next can be accepted
EverySubmissionEndsWitness ==
  /\ tasks # <<>>
  /\ tasks[Len(tasks)].outcome = "previewfail"
  /\ mounted /\ ~loading
  /\ SubmitAccepted

\* C17: the preview is published in one piece: pageImages is empty or the
\* complete page sequence of the latest, successful submission's document;
\* it is empty while a submission runs and after a preview failure, never a
\* prefix of the pages rendered so far.
PreviewAtomic ==
  /\ pageImages # <<>> =>
       /\ tasks # <<>>
       /\ tasks[Len(tasks)].outcome = "success"
       /\ pageImages = PagesOf(Len(tasks), tasks[Len(tasks)].numPages)
  /\ \A i \in DOMAIN tasks :
       (Running(i) \/ tasks[i].outcome = "previewfail") /\ mounted =>
         pageImages = <<>>

\* one page of two or more is rendered and nothing is on display yet
PreviewAtomicWitness ==
  \E i \in DOMAIN tasks :
    /\ tasks[i].pc \in {"getPage", "render"}
    /\ tasks[i].images # <<>>
    /\ mounted
    /\ pageImages = <<>>

\* C18: while the component is mounted a non-null pdfUrl is an object URL
\* that has not been revoked, and every save handleDownload triggered used
\* a URL that was not revoked at that time.
DownloadTargetLive ==
  /\ mounted /\ pdfUrl # NullUrl => pdfUrl \in Live(urls)
  /\ saved # NoSave => saved.live

\* the output of a resubmission was saved after the earlier URL was revoked
DownloadTargetLiveWitness ==
  /\ Len(tasks) >= 2
  /\ saved # NoSave
  /\ saved.href = pdfUrl
  /\ \E h \in DOMAIN urls : h # pdfUrl /\ urls[h].revokes > 0

\* C19: the error is empty before the first submission and for as long as
\* the latest submission runs; once it has ended (while mounted) the error
\* is the message that submission produced: none after a success, the
\* request's or the body read's failure message, or the preview error.
ErrorFromLatestSubmission ==
  IF tasks = <<>>
    THEN error = ""
    ELSE LET t == tasks[Len(tasks)]
         IN /\ t.pc # "done" => error = ""
            /\ mounted =>
                 /\ t.outcome = "success" => error = ""
                 /\ t.outcome = "status" =>
                      error = CatchMessage(ThrownMessage(t.body))
                 /\ t.outcome \in {"transport", "bodyread"} =>
                      error \in { CatchMessage(m) : m \in RejectMessages }
                 /\ t.outcome = "previewfail" => error = PreviewFailed

\* a submission runs with no error shown after an earlier one failed before
\* any blob arrived
ErrorFromLatestSubmissionWitness ==
  /\ Len(tasks) >= 2
  /\ tasks[1].pc = "done" /\ tasks[1].url = NullUrl
  /\ Running(Len(tasks))
  /\ mounted
  /\ error = ""

====
